---- MODULE Spec2Model ----
(***************************************************************************)
(* A model of crop's GapSlice (src/rope/gap_slice.rs): a borrowed view     *)
(* over a gap buffer holding two UTF-8 segments around a gap, with the     *)
(* metric-based split and the two truncations.                             *)
(*                                                                         *)
(* A string is a sequence of bytes (0..255); a slice is a record           *)
(* [bytes, left_summary, len_right]; a ChunkSummary is a record            *)
(* [bytes, line_breaks].  The metrics module (ChunkSummary, ByteMetric,    *)
(* RawLineMetric) is not part of the sources at hand and is modelled from  *)
(* its contract.                                                           *)
(***************************************************************************)
EXTENDS Integers, Sequences, FiniteSets, TLC

VARIABLES slice, summary, op

vars == <<slice, summary, op>>

\* ------------------------------------------------------------------ bounds
MaxChars == 3
MaxGap == 1

\* -------------------------------------------------------- bytes and strings
LF == 10
CR == 13

\* The codepoints the model draws text from, each as its UTF-8 encoding:
\* 'a', '\n', '\r' and the three-byte U+20AC.
Chars == { <<97>>, <<LF>>, <<CR>>, <<226, 130, 172>> }

\* A UTF-8 continuation byte, 0b10xxxxxx.
is_continuation(b) == b >= 128 /\ b < 192

Take(s, n) == SubSeq(s, 1, n)
Drop(s, n) == SubSeq(s, n + 1, Len(s))

RECURSIVE Flatten(_)
Flatten(cs) == IF cs = <<>> THEN <<>> ELSE Head(cs) \o Flatten(Tail(cs))

RECURSIVE count_line_breaks(_)
count_line_breaks(s) ==
    IF s = <<>> THEN 0
    ELSE (IF Head(s) = LF THEN 1 ELSE 0) + count_line_breaks(Tail(s))

\* str::is_char_boundary
str_is_char_boundary(s, i) ==
    IF i = 0 \/ i = Len(s) THEN TRUE
    ELSE IF i > Len(s) THEN FALSE
    ELSE ~is_continuation(s[i + 1])

\* str::chars().next_back() of a non-empty string: the bytes of its last
\* codepoint.
last_char(s) ==
    LET start == CHOOSE i \in 1..Len(s) :
                    /\ ~is_continuation(s[i])
                    /\ \A j \in (i + 1)..Len(s) : is_continuation(s[j])
    IN  SubSeq(s, start, Len(s))

\* str::ends_with(char) for a one-byte char
ends_with(s, b) == Len(s) > 0 /\ s[Len(s)] = b

\* ------------------------------------------------------------- ChunkSummary
cs_zero == [bytes |-> 0, line_breaks |-> 0]
cs_add(a, b) == [bytes |-> a.bytes + b.bytes,
                 line_breaks |-> a.line_breaks + b.line_breaks]
cs_sub(a, b) == [bytes |-> a.bytes - b.bytes,
                 line_breaks |-> a.line_breaks - b.line_breaks]
cs_from_str(s) == [bytes |-> Len(s), line_breaks |-> count_line_breaks(s)]
cs_from_char(c) == [bytes |-> Len(c),
                    line_breaks |-> IF c = <<LF>> THEN 1 ELSE 0]

\* ------------------------------------------------------------------ metrics
Metrics == {"byte", "line"}

measure(M, s) == IF M = "byte" THEN s.bytes ELSE s.line_breaks

\* The byte at which line `n` of `s` starts: just past its n-th line break.
RECURSIVE byte_of_line(_, _)
byte_of_line(s, n) ==
    IF n = 0 THEN 0
    ELSE IF s = <<>> THEN 0
    ELSE 1 + byte_of_line(Tail(s), IF Head(s) = LF THEN n - 1 ELSE n)

to_byte_offset(M, offset, s) ==
    IF M = "byte" THEN offset ELSE byte_of_line(s, offset)

\* The byte metric counts the line breaks of in_str[..byte_offset], a string
\* index that is fatal inside a codepoint.
up_to_rejects(M, in_str, byte_offset) ==
    M = "byte" /\ ~str_is_char_boundary(in_str, byte_offset)

up_to(M, in_str, str_summary, offset, byte_offset) ==
    IF M = "byte"
    THEN [bytes |-> byte_offset,
          line_breaks |-> count_line_breaks(Take(in_str, byte_offset))]
    ELSE [bytes |-> byte_offset, line_breaks |-> offset]

\* ----------------------------------------------------------------- GapSlice
GapSlice(b, ls, lr) == [bytes |-> b, left_summary |-> ls, len_right |-> lr]

empty == GapSlice(<<>>, cs_zero, 0)

len_left(s) == s.left_summary.bytes
len_right(s) == s.len_right
len(s) == len_left(s) + len_right(s)
len_gap(s) == Len(s.bytes) - len(s)

left_chunk(s) == Take(s.bytes, len_left(s))
right_chunk(s) == Drop(s.bytes, Len(s.bytes) - len_right(s))
last_chunk(s) == IF len_right(s) = 0 THEN left_chunk(s) ELSE right_chunk(s)

byte(s, i) ==
    IF i < len_left(s) THEN left_chunk(s)[i + 1]
    ELSE right_chunk(s)[i - len_left(s) + 1]

left_measure(M, s) == measure(M, s.left_summary)

summarize_right_chunk(s) == cs_from_str(right_chunk(s))
summarize(s) == cs_add(s.left_summary, summarize_right_chunk(s))
right_summary(s, sm) == cs_sub(sm, s.left_summary)

\* Mutant: looks at the right chunk even when it is empty.
has_trailing_newline_right_only(s) == ends_with(right_chunk(s), LF)

has_trailing_newline(s) == ends_with(last_chunk(s), LF)

\* Mutant: the offset handed to the right chunk is not made local to it.
is_char_boundary_global_offset(s, byte_offset) ==
    IF byte_offset <= len_left(s)
    THEN str_is_char_boundary(left_chunk(s), byte_offset)
    ELSE str_is_char_boundary(right_chunk(s), byte_offset)

is_char_boundary(s, byte_offset) ==
    IF byte_offset <= len_left(s)
    THEN str_is_char_boundary(left_chunk(s), byte_offset)
    ELSE str_is_char_boundary(right_chunk(s), byte_offset - len_left(s))

\* The outcome of assert_char_boundary: it returns, or it is fatal with the
\* chunk and the chunk-local offset of the message.
assert_char_boundary(s, byte_offset) ==
    IF ~is_char_boundary(s, byte_offset)
    THEN IF byte_offset < len_left(s)
         THEN [status |-> "panic", chunk |-> left_chunk(s),
               offset |-> byte_offset]
         ELSE [status |-> "panic", chunk |-> right_chunk(s),
               offset |-> byte_offset - len_left(s)]
    ELSE [status |-> "ok", chunk |-> <<>>, offset |-> 0]

\* The conditions assert_invariants asserts.
invariants_hold(s) ==
    /\ s.left_summary = cs_from_str(left_chunk(s))
    /\ IF len_right(s) = 0 THEN len_left(s) = Len(s.bytes)
       ELSE IF len_left(s) = 0 THEN len_right(s) = Len(s.bytes)
       ELSE TRUE

\* Mutant: removes the last byte instead of the last codepoint.
truncate_last_char_one_byte(s, sm) ==
    LET last == last_chunk(s)[Len(last_chunk(s))]
        removed_summary == [bytes |-> 1,
                            line_breaks |-> IF last = LF THEN 1 ELSE 0]
        len_utf8 == removed_summary.bytes
    IN  IF s.len_right < len_utf8
        THEN LET ls == cs_sub(s.left_summary, removed_summary)
             IN  [slice |-> GapSlice(Take(s.bytes, ls.bytes), ls, s.len_right),
                  ret |-> ls]
        ELSE IF s.len_right > len_utf8
        THEN [slice |-> GapSlice(Take(s.bytes, Len(s.bytes) - len_utf8),
                                 s.left_summary, s.len_right - len_utf8),
              ret |-> cs_sub(sm, removed_summary)]
        ELSE [slice |-> GapSlice(Take(s.bytes, len_left(s)),
                                 s.left_summary, 0),
              ret |-> s.left_summary]

\* Mutant: when the right chunk goes away its bytes and the gap stay in the
\* span.
truncate_last_char_keeps_span(s, sm) ==
    LET removed_summary == cs_from_char(last_char(last_chunk(s)))
        len_utf8 == removed_summary.bytes
    IN  IF s.len_right < len_utf8
        THEN LET ls == cs_sub(s.left_summary, removed_summary)
             IN  [slice |-> GapSlice(Take(s.bytes, ls.bytes), ls, s.len_right),
                  ret |-> ls]
        ELSE IF s.len_right > len_utf8
        THEN [slice |-> GapSlice(Take(s.bytes, Len(s.bytes) - len_utf8),
                                 s.left_summary, s.len_right - len_utf8),
              ret |-> cs_sub(sm, removed_summary)]
        ELSE [slice |-> GapSlice(s.bytes, s.left_summary, 0),
              ret |-> s.left_summary]

\* truncate_last_char: the narrowed slice and the returned summary.
truncate_last_char(s, sm) ==
    LET removed_summary == cs_from_char(last_char(last_chunk(s)))
        len_utf8 == removed_summary.bytes
    IN  IF s.len_right < len_utf8
        THEN LET ls == cs_sub(s.left_summary, removed_summary)
             IN  [slice |-> GapSlice(Take(s.bytes, ls.bytes), ls, s.len_right),
                  ret |-> ls]
        ELSE IF s.len_right > len_utf8
        THEN [slice |-> GapSlice(Take(s.bytes, Len(s.bytes) - len_utf8),
                                 s.left_summary, s.len_right - len_utf8),
              ret |-> cs_sub(sm, removed_summary)]
        ELSE [slice |-> GapSlice(Take(s.bytes, len_left(s)),
                                 s.left_summary, 0),
              ret |-> s.left_summary]

\* Mutant: looks for the CR in the right chunk only.
truncate_trailing_line_break_cr_in_right(s, sm) ==
    IF ~has_trailing_newline(s) THEN [slice |-> s, ret |-> sm]
    ELSE LET first == truncate_last_char(s, sm)
         IN  IF ends_with(right_chunk(first.slice), CR)
             THEN truncate_last_char(first.slice, first.ret)
             ELSE first

truncate_trailing_line_break(s, sm) ==
    IF ~has_trailing_newline(s) THEN [slice |-> s, ret |-> sm]
    ELSE LET first == truncate_last_char(s, sm)
         IN  IF ends_with(last_chunk(first.slice), CR)
             THEN truncate_last_char(first.slice, first.ret)
             ELSE first

\* Mutant: a cut in the right chunk does not skip the gap.
split_bytes_ignoring_gap(s, byte_offset) ==
    IF byte_offset = len_left(s)
    THEN <<left_chunk(s), right_chunk(s)>>
    ELSE LET offset == byte_offset
         IN  <<Take(s.bytes, offset), Drop(s.bytes, offset)>>

\* Mutant: no fast path, a cut at the seam is a cut of the span at len_left.
split_bytes_no_fast_path(s, byte_offset) ==
    LET offset == IF byte_offset <= len_left(s) THEN byte_offset
                  ELSE byte_offset + len_gap(s)
    IN  <<Take(s.bytes, offset), Drop(s.bytes, offset)>>

\* split_bytes: the pair of byte spans.
split_bytes(s, byte_offset) ==
    IF byte_offset = len_left(s)
    THEN <<left_chunk(s), right_chunk(s)>>
    ELSE LET offset == IF byte_offset < len_left(s) THEN byte_offset
                       ELSE byte_offset + len_gap(s)
         IN  <<Take(s.bytes, offset), Drop(s.bytes, offset)>>

\* A split that ended in a fatal error instead of returning.
Rejected == [status |-> "panic", left |-> empty, left_summary |-> cs_zero,
             right |-> empty, right_summary |-> cs_zero, byte_offset |-> 0,
             branch |-> "none"]

\* Mutant: the right chunk goes to the left result instead of the right one.
split_left_branch_swapped_len_right(s, M, offset, sm) ==
    LET byte_offset == to_byte_offset(M, offset, left_chunk(s))
        sb == split_bytes(s, byte_offset)
        left_left_summary ==
            up_to(M, left_chunk(s), s.left_summary, offset, byte_offset)
        left == GapSlice(sb[1], left_left_summary, s.len_right)
        right == GapSlice(sb[2], cs_sub(s.left_summary, left_left_summary), 0)
    IN  IF up_to_rejects(M, left_chunk(s), byte_offset) THEN Rejected
        ELSE [status |-> "ok",
              left |-> left, left_summary |-> left.left_summary,
              right |-> right, right_summary |-> cs_sub(sm, left.left_summary),
              byte_offset |-> byte_offset, branch |-> "left"]

\* split_at_offset when offset <= left_measure: the cut is in the left chunk.
split_left_branch(s, M, offset, sm) ==
    LET byte_offset == to_byte_offset(M, offset, left_chunk(s))
        sb == split_bytes(s, byte_offset)
        left_left_summary ==
            up_to(M, left_chunk(s), s.left_summary, offset, byte_offset)
        left == GapSlice(sb[1], left_left_summary, 0)
        right == GapSlice(sb[2], cs_sub(s.left_summary, left_left_summary),
                          s.len_right)
    IN  IF up_to_rejects(M, left_chunk(s), byte_offset) THEN Rejected
        ELSE [status |-> "ok",
              left |-> left, left_summary |-> left.left_summary,
              right |-> right, right_summary |-> cs_sub(sm, left.left_summary),
              byte_offset |-> byte_offset, branch |-> "left"]

\* Mutant: returns the left result's cached left_summary as its summary, as
\* the other branch does.
split_right_branch_cached_left_summary(s, M, offset, sm) ==
    LET off == offset - left_measure(M, s)
        byte_offset == to_byte_offset(M, off, right_chunk(s))
        sb == split_bytes(s, len_left(s) + byte_offset)
        right_left_summary ==
            up_to(M, right_chunk(s), right_summary(s, sm), off, byte_offset)
        left == GapSlice(sb[1], s.left_summary, right_left_summary.bytes)
        right == GapSlice(sb[2],
                          cs_sub(right_summary(s, sm), right_left_summary), 0)
    IN  IF up_to_rejects(M, right_chunk(s), byte_offset) THEN Rejected
        ELSE [status |-> "ok",
              left |-> left, left_summary |-> left.left_summary,
              right |-> right, right_summary |-> right.left_summary,
              byte_offset |-> len_left(s) + byte_offset, branch |-> "right"]

\* Mutant: returns the whole right chunk's summary for the right result.
split_right_branch_whole_right_summary(s, M, offset, sm) ==
    LET off == offset - left_measure(M, s)
        byte_offset == to_byte_offset(M, off, right_chunk(s))
        sb == split_bytes(s, len_left(s) + byte_offset)
        right_left_summary ==
            up_to(M, right_chunk(s), right_summary(s, sm), off, byte_offset)
        left == GapSlice(sb[1], s.left_summary, right_left_summary.bytes)
        right == GapSlice(sb[2],
                          cs_sub(right_summary(s, sm), right_left_summary), 0)
    IN  IF up_to_rejects(M, right_chunk(s), byte_offset) THEN Rejected
        ELSE [status |-> "ok",
              left |-> left, left_summary |-> cs_sub(sm, right.left_summary),
              right |-> right, right_summary |-> right_summary(s, sm),
              byte_offset |-> len_left(s) + byte_offset, branch |-> "right"]

\* split_at_offset otherwise: the cut is in the right chunk.
split_right_branch(s, M, offset, sm) ==
    LET off == offset - left_measure(M, s)
        byte_offset == to_byte_offset(M, off, right_chunk(s))
        sb == split_bytes(s, len_left(s) + byte_offset)
        right_left_summary ==
            up_to(M, right_chunk(s), right_summary(s, sm), off, byte_offset)
        left == GapSlice(sb[1], s.left_summary, right_left_summary.bytes)
        right == GapSlice(sb[2],
                          cs_sub(right_summary(s, sm), right_left_summary), 0)
    IN  IF up_to_rejects(M, right_chunk(s), byte_offset) THEN Rejected
        ELSE [status |-> "ok",
              left |-> left, left_summary |-> cs_sub(sm, right.left_summary),
              right |-> right, right_summary |-> right.left_summary,
              byte_offset |-> len_left(s) + byte_offset, branch |-> "right"]

split_at_offset(s, M, offset, sm) ==
    IF offset <= left_measure(M, s)
    THEN split_left_branch(s, M, offset, sm)
    ELSE split_right_branch(s, M, offset, sm)

\* The live bytes of a slice, in order.
Live(s) == left_chunk(s) \o right_chunk(s)

\* ------------------------------------------------------------ state machine
RECURSIVE SeqsUpTo(_, _)
SeqsUpTo(S, n) ==
    IF n = 0 THEN {<<>>}
    ELSE LET shorter == SeqsUpTo(S, n - 1)
         IN  shorter \cup {Append(t, c) : t \in shorter, c \in S}

\* The gap holds bytes no segment owns, whatever an earlier edit left there
\* (here line breaks or continuation bytes).
GapBytes == {LF, 130}
Gap(g, b) == [i \in 1..g |-> b]

\* The last operation: its name, the slice and summary it was called on, its
\* arguments and its outcome.  `repeated` says that a
\* truncate_trailing_line_break directly followed another one, which had
\* removed `first_removed` bytes.
Record(name, M, offset, keep, repeated, first_removed, out) ==
    [name |-> name, pre |-> slice, pre_summary |-> summary, metric |-> M,
     offset |-> offset, keep |-> keep, repeated |-> repeated,
     first_removed |-> first_removed, out |-> out]

Returned == [status |-> "ok"]

\* The slices GapBuffer::as_slice hands out: two valid UTF-8 segments around
\* a gap, no gap when a segment is empty, the cached summary correct.
Init ==
    \E l \in SeqsUpTo(Chars, MaxChars), r \in SeqsUpTo(Chars, MaxChars),
       g \in 0..MaxGap, b \in GapBytes :
        /\ Len(l) + Len(r) <= MaxChars
        /\ (l = <<>> \/ r = <<>>) => g = 0
        /\ slice = GapSlice(Flatten(l) \o Gap(g, b) \o Flatten(r),
                            cs_from_str(Flatten(l)), Len(Flatten(r)))
        /\ summary = cs_from_str(Flatten(l) \o Flatten(r))
        /\ op = [name |-> "init", pre |-> empty, pre_summary |-> cs_zero,
                 metric |-> "byte", offset |-> 0, keep |-> "none",
                 repeated |-> FALSE, first_removed |-> 0, out |-> Returned]

\* A fatal error ends the program.
Alive == op.out.status = "ok"

\* split_at_offset::<M>(offset, summary), the caller going on with one of the
\* two slices and the summary returned with it.
Split ==
    /\ Alive
    /\ \E M \in Metrics, keep \in {"left", "right"} :
         \E offset \in 0..measure(M, summary) :
           LET r == split_at_offset(slice, M, offset, summary)
           IN  /\ op' = Record("split", M, offset, keep, FALSE, 0, r)
               /\ IF r.status = "panic"
                  THEN UNCHANGED <<slice, summary>>
                  ELSE IF keep = "left"
                  THEN slice' = r.left /\ summary' = r.left_summary
                  ELSE slice' = r.right /\ summary' = r.right_summary

TruncateLastChar ==
    /\ Alive
    /\ len(slice) > 0
    /\ LET r == truncate_last_char(slice, summary)
       IN  /\ slice' = r.slice
           /\ summary' = r.ret
           /\ op' = Record("truncate_last_char", "byte", 0, "none", FALSE, 0,
                           Returned)

TruncateTrailingLineBreak ==
    /\ Alive
    /\ LET r == truncate_trailing_line_break(slice, summary)
           again == op.name = "truncate_trailing_line_break"
       IN  /\ slice' = r.slice
           /\ summary' = r.ret
           /\ op' = Record("truncate_trailing_line_break", "byte", 0, "none",
                           again,
                           IF again THEN len(op.pre) - len(slice) ELSE 0,
                           Returned)

IsCharBoundary ==
    /\ Alive
    /\ \E byte_offset \in 0..len(slice) :
         op' = Record("is_char_boundary", "byte", byte_offset, "none", FALSE,
                      0, [status |-> "ok",
                          is_boundary |-> is_char_boundary(slice, byte_offset)])
    /\ UNCHANGED <<slice, summary>>

AssertCharBoundary ==
    /\ Alive
    /\ \E byte_offset \in 0..len(slice) :
         op' = Record("assert_char_boundary", "byte", byte_offset, "none",
                      FALSE, 0, assert_char_boundary(slice, byte_offset))
    /\ UNCHANGED <<slice, summary>>

Next ==
    \/ Split
    \/ TruncateLastChar
    \/ TruncateTrailingLineBreak
    \/ IsCharBoundary
    \/ AssertCharBoundary

Spec == Init /\ [][Next]_vars

\* --------------------------------------------------------------- properties

SplitDone == op.name = "split" /\ op.out.status = "ok"

\* The logical byte offset o lies strictly inside a multi-byte codepoint of
\* s: the live byte at o is a continuation byte.
InsideCodepoint(s, o) ==
    /\ 0 < o
    /\ o < len(s)
    /\ is_continuation(Live(s)[o + 1])

\* C1: a split that returns hands back two slices whose live bytes, left then
\* right, are the original's live bytes, and two summaries that sum to the
\* original summary (a byte offset inside a codepoint never returns, see C7).
SplitReassembles ==
    SplitDone =>
        /\ Live(op.out.left) \o Live(op.out.right) = Live(op.pre)
        /\ cs_add(op.out.left_summary, op.out.right_summary) = op.pre_summary

\* C1 witness: a line-metric cut strictly inside the right segment of a slice
\* with two segments and a gap.
SplitReassemblesWitness ==
    /\ SplitDone
    /\ op.metric = "line"
    /\ op.out.branch = "right"
    /\ len_left(op.pre) > 0
    /\ len_gap(op.pre) > 0
    /\ op.out.byte_offset < len(op.pre)

\* C2: the summary returned for the left result measures exactly the offset
\* asked for, in both branches.
SplitLeftMeasuresOffset ==
    SplitDone => measure(op.metric, op.out.left_summary) = op.offset

\* C2 witness: a byte-metric cut in the right segment, past a non-empty left
\* segment.
SplitLeftMeasuresOffsetWitness ==
    /\ SplitDone
    /\ op.metric = "byte"
    /\ op.out.branch = "right"
    /\ len_left(op.pre) > 0
    /\ op.offset < len(op.pre)

AtFullMeasure == SplitDone /\ op.offset = measure(op.metric, op.pre_summary)

Mirror ==
    /\ op.out.left_summary = op.pre_summary
    /\ op.out.right_summary = cs_zero
    /\ len(op.out.right) = 0
    /\ Live(op.out.left) = Live(op.pre)

\* C3 as stated: for every metric, splitting at the slice's full measure
\* returns the whole slice on the left and an empty slice on the right.
SplitAtMeasureMirrors == AtFullMeasure => Mirror

\* C3 amended: that holds for the byte metric, and for the line metric when
\* the live text is empty or ends in a line break; otherwise the line metric
\* cuts right after the last line break and the right result holds the bytes
\* after it.
SplitAtMeasureMirrorsUpToLastLine ==
    AtFullMeasure =>
        IF \/ op.metric = "byte"
           \/ Live(op.pre) = <<>>
           \/ ends_with(Live(op.pre), LF)
        THEN Mirror
        ELSE /\ Live(op.out.left) \o Live(op.out.right) = Live(op.pre)
             /\ Live(op.out.left) = <<>> \/ ends_with(Live(op.out.left), LF)
             /\ count_line_breaks(Live(op.out.right)) = 0
             /\ len(op.out.right) > 0

\* C3 witness: a line-metric split at the full measure of a two-segment text
\* that ends in a line break.
SplitAtMeasureWitness ==
    /\ AtFullMeasure
    /\ op.metric = "line"
    /\ ends_with(Live(op.pre), LF)
    /\ len_left(op.pre) > 0
    /\ len_right(op.pre) > 1

\* C4: truncate_last_char removes exactly the final codepoint, and the summary
\* it returns is the old one minus that codepoint's, which is the narrowed
\* slice's summary.
TruncateLastCharRemovesLastCodepoint ==
    op.name = "truncate_last_char" =>
        \E c \in Chars :
            /\ Live(op.pre) = Live(slice) \o c
            /\ len(slice) = len(op.pre) - Len(c)
            /\ summary = cs_sub(op.pre_summary, cs_from_char(c))
            /\ summary = cs_from_str(Live(slice))
            /\ summary = summarize(slice)
            /\ cs_add(summary, cs_from_char(c)) = op.pre_summary
            /\ len(slice) + Len(c) = len(op.pre)

\* C4 witness: the right segment was exactly one three-byte codepoint.
TruncateLastCharWitness ==
    /\ op.name = "truncate_last_char"
    /\ len_left(op.pre) > 0
    /\ len_gap(op.pre) > 0
    /\ right_chunk(op.pre) = <<226, 130, 172>>

EndsInCRLF(s) ==
    /\ Len(s) >= 2
    /\ s[Len(s)] = LF
    /\ s[Len(s) - 1] = CR

\* C5: truncate_trailing_line_break leaves a slice that does not end in LF
\* untouched, removes the 2 bytes of a final CR LF and the 1 byte of a final
\* bare LF, wherever the seam lies, and returns the narrowed slice's summary.
TruncateTrailingLineBreakRemovesTerminator ==
    op.name = "truncate_trailing_line_break" =>
        IF ~ends_with(Live(op.pre), LF)
        THEN slice = op.pre /\ summary = op.pre_summary
        ELSE /\ summary = cs_from_str(Live(slice))
             /\ summary = summarize(slice)
             /\ IF EndsInCRLF(Live(op.pre))
                THEN /\ Live(op.pre) = Live(slice) \o <<CR, LF>>
                     /\ summary.bytes = op.pre_summary.bytes - 2
                ELSE /\ Live(op.pre) = Live(slice) \o <<LF>>
                     /\ summary.bytes = op.pre_summary.bytes - 1

\* C5 witness: CR is the last byte of the left segment and LF the whole right
\* segment, across a gap.
TruncateTrailingLineBreakWitness ==
    /\ op.name = "truncate_trailing_line_break"
    /\ ends_with(left_chunk(op.pre), CR)
    /\ right_chunk(op.pre) = <<LF>>
    /\ len_gap(op.pre) > 0
    /\ len(slice) = len(op.pre) - 2

\* C6 as stated: a second truncate_trailing_line_break changes nothing and
\* returns the summary of the first.
TruncateTrailingLineBreakIdempotent ==
    (op.name = "truncate_trailing_line_break" /\ op.repeated) =>
        slice = op.pre /\ summary = op.pre_summary

\* C6 amended: one call removes one line break, so the slice still ends in a
\* line break after it exactly when the text ended in two of them (LF LF or
\* LF CR LF); a second call changes nothing and returns the same summary
\* when the slice the first call left has no trailing line break, and removes
\* the next line break otherwise.
TruncateTrailingLineBreakIdempotentUnlessDoubled ==
    /\ (op.name = "truncate_trailing_line_break" /\ op.repeated) =>
           IF ends_with(Live(op.pre), LF)
           THEN len(slice) < len(op.pre)
           ELSE slice = op.pre /\ summary = op.pre_summary
    /\ op.name = "truncate_trailing_line_break" =>
           (ends_with(Live(slice), LF) <=>
               \E t \in {<<LF, LF>>, <<LF, CR, LF>>} :
                   /\ Len(Live(op.pre)) >= Len(t)
                   /\ Drop(Live(op.pre), Len(Live(op.pre)) - Len(t)) = t)

\* C6 witness: a second call on the slice from which the first call removed
\* a CR LF.
TruncateTrailingLineBreakTwiceWitness ==
    /\ op.name = "truncate_trailing_line_break"
    /\ op.repeated
    /\ op.first_removed = 2
    /\ ~ends_with(Live(op.pre), LF)
    /\ len(op.pre) > 0

RECURSIVE is_utf8(_)
is_utf8(s) ==
    \/ s = <<>>
    \/ \E c \in Chars :
           /\ Len(s) >= Len(c)
           /\ Take(s, Len(c)) = c
           /\ is_utf8(Drop(s, Len(c)))

Valid(s, sm) ==
    /\ invariants_hold(s)
    /\ len_left(s) + len_right(s) <= Len(s.bytes)
    /\ s.len_right >= 0
    /\ sm = summarize(s)
    /\ is_utf8(left_chunk(s))
    /\ is_utf8(right_chunk(s))

\* C8: every slice reached by splits and truncations from a valid slice
\* satisfies the conditions of assert_invariants and has
\* len_left + len_right <= bytes.len(); so do both results of every split,
\* and each summary handed back is the summary of its slice.
InvariantsPreserved ==
    /\ Valid(slice, summary)
    /\ SplitDone =>
           /\ Valid(op.out.left, op.out.left_summary)
           /\ Valid(op.out.right, op.out.right_summary)

\* C8 witness: the slice in hand is the right result of a cut strictly inside
\* the left segment, which keeps both segments and the gap.
InvariantsPreservedWitness ==
    /\ SplitDone
    /\ op.keep = "right"
    /\ op.out.branch = "left"
    /\ op.out.byte_offset > 0
    /\ len_left(slice) > 0
    /\ len_right(slice) > 0
    /\ len_gap(slice) > 0

OneSegmentNoGap(s) ==
    /\ len_left(s) = 0 \/ len_right(s) = 0
    /\ len_gap(s) = 0

\* C9 as stated: each result of a split keeps at most one non-empty segment
\* and has no gap.
SplitResultsSingleSegment ==
    SplitDone => OneSegmentNoGap(op.out.left) /\ OneSegmentNoGap(op.out.right)

\* C9 amended: the result on the side of the cut is a single segment without
\* gap (the left result of a cut at or before the seam, the right result of a
\* cut after it); the other result is one too when the cut is at the seam,
\* and otherwise keeps the rest of the cut segment, the whole other segment
\* and the original gap between them.
SplitResultsSingleSegmentOnCutSide ==
    SplitDone =>
        IF op.out.branch = "left"
        THEN /\ len_right(op.out.left) = 0
             /\ len_gap(op.out.left) = 0
             /\ IF op.out.byte_offset = len_left(op.pre)
                THEN OneSegmentNoGap(op.out.right)
                ELSE /\ len_left(op.out.right)
                          = len_left(op.pre) - op.out.byte_offset
                     /\ len_right(op.out.right) = len_right(op.pre)
                     /\ len_gap(op.out.right) = len_gap(op.pre)
        ELSE /\ len_right(op.out.right) = 0
             /\ len_gap(op.out.right) = 0
             /\ len_left(op.out.left) = len_left(op.pre)
             /\ len_right(op.out.left)
                  = op.out.byte_offset - len_left(op.pre)
             /\ len_right(op.out.left) > 0
             /\ len_gap(op.out.left) = len_gap(op.pre)

\* C9 witness: a cut strictly inside the left segment of a slice with two
\* segments and a gap; the right result has both segments and the gap.
SplitResultsWitness ==
    /\ SplitDone
    /\ op.keep = "left"
    /\ op.out.branch = "left"
    /\ op.out.byte_offset > 0
    /\ len_left(op.out.right) > 0
    /\ len_right(op.out.right) > 0
    /\ len_gap(op.out.right) > 0

AtSeamMeasure == SplitDone /\ op.offset = left_measure(op.metric, op.pre)

SegmentBoundarySplit ==
    /\ op.out.branch = "left"
    /\ op.out.byte_offset = len_left(op.pre)
    /\ op.out.left.bytes = left_chunk(op.pre)
    /\ Live(op.out.left) = left_chunk(op.pre)
    /\ op.out.left_summary = op.pre.left_summary
    /\ op.out.right.bytes = right_chunk(op.pre)
    /\ Live(op.out.right) = right_chunk(op.pre)

\* C10 as stated: for every metric, an offset equal to the measure of the
\* left segment converts to the byte offset len_left and splits the slice
\* into its two segments.
SeamSplitIsSegmentBoundary == AtSeamMeasure => SegmentBoundarySplit

\* C10 amended: that holds for the byte metric, and for the line metric when
\* the left segment is empty or ends in a line break; when the left segment
\* has bytes after its last line break, the line metric converts the offset
\* to the byte right after that line break, inside the left segment, and
\* those bytes go to the right result.
SeamSplitIsSegmentBoundaryUnlessTrailingBytes ==
    AtSeamMeasure =>
        IF \/ op.metric = "byte"
           \/ left_chunk(op.pre) = <<>>
           \/ ends_with(left_chunk(op.pre), LF)
        THEN SegmentBoundarySplit
        ELSE /\ op.out.branch = "left"
             /\ op.out.byte_offset < len_left(op.pre)
             /\ Live(op.out.left) = Take(left_chunk(op.pre), op.out.byte_offset)
             /\ Live(op.out.left) = <<>> \/ ends_with(Live(op.out.left), LF)
             /\ count_line_breaks(left_chunk(op.out.right)) = 0
             /\ Live(op.out.right)
                  = Drop(left_chunk(op.pre), op.out.byte_offset)
                    \o right_chunk(op.pre)

\* C10 witness: a line-metric seam split of a slice whose left segment ends
\* in a line break, with a right segment across a gap.
SeamSplitWitness ==
    /\ AtSeamMeasure
    /\ op.metric = "line"
    /\ op.offset > 0
    /\ ends_with(left_chunk(op.pre), LF)
    /\ len_right(op.pre) > 0
    /\ len_gap(op.pre) > 0

====
